---- MODULE Spec2Model ----
(***************************************************************************)
(* QASystem (src/src/qa_system.py): the retrieval-augmented conversational *)
(* pipeline, its message history, the persisted Chroma collection, the     *)
(* feedback file and the chat-history export files.                        *)
(***************************************************************************)
EXTENDS Integers, Sequences, FiniteSets, TLC

\* ------------------------------------------------------------------ bounds
MaxMsgs == 4         \* longest message history explored
MaxBuilds == 2       \* index builds explored (clock readings 1..MaxBuilds)
MaxChunks == 1       \* most chunks a single document splits into
MaxDocs == 2         \* most files in EXTRACTED_DIR
MaxFeedbacks == 3    \* most records in feedback.json

\* -------------------------------------------------------- program constants
k_documents == 6     \* search_kwargs k of the retriever

None == 0            \* an unset handle (self.vectorstore / self.qa_chain is None)

MaxRetrieved == 3    \* longest source_documents list a chain result carries

MaxLen == 3          \* longest text handed to preprocess_text

\* ------------------------------------------------------------- input sets
\* one character of each class preprocess_text tells apart
Alphabet == {"a", " ", "\n", ".", "'", "#"}
DocNames == {"A.txt", "B.txt"}
Questions == {"", "q1", "q2"}
Answers == {"a1", "a2"}
Stages == {"load", "embed", "write", "llm", "chain"}
Ratings == {0, 3, 6}
FeedbackQuestions == {"q1", "q2"}
CustomFilenames == {"", "out.json"}

VARIABLES
    extracted,        \* EXTRACTED_DIR: the *.txt files in glob order, each with the
                      \* number of chunks the splitter cuts its text into
    chroma,           \* the collection persisted in CHROMA_DIR: a sequence of entries
    vectorstore,      \* self.vectorstore: None or the handle made by a build
    qa_chain,         \* self.qa_chain: None or the chain (and retriever) made by a build
    message_history,  \* self.message_history: None or an InMemoryHistory
    now,              \* the clock datetime.now() reads
    feedback_file,    \* DATA_DIR/feedback.json
    exports,          \* the files of EXPORTS_DIR
    export_pc,        \* position of an export_chat_history call in progress
    reader_saw,       \* what a concurrent reader of an export file last read
    last              \* the last call: its arguments, outcome and what it handed on

vars == <<extracted, chroma, vectorstore, qa_chain, message_history, now,
          feedback_file, exports, export_pc, reader_saw, last>>

qa_vars == <<extracted, chroma, vectorstore, qa_chain, message_history, now>>
feedback_vars == <<feedback_file>>
export_vars == <<exports, export_pc, reader_saw>>

\* ---------------------------------------------------------------- helpers
Min(a, b) == IF a < b THEN a ELSE b

HumanMessage(content) == [role |-> "human", content |-> content]
AIMessage(content) == [role |-> "ai", content |-> content]

NoHistory == [exists |-> FALSE, messages |-> <<>>]
InMemoryHistory == [exists |-> TRUE, messages |-> <<>>]

\* InMemoryHistory.add_message
add_message(h, m) == [h EXCEPT !.messages = Append(@, m)]

\* InMemoryHistory.clear
clear(h) == [h EXCEPT !.messages = <<>>]

\* the record every call leaves behind
Call(op) ==
    [op |-> op, query |-> "", answer |-> "", rating |-> 0, comment |-> "",
     outcome |-> "ok", built |-> FALSE, invoked |-> FALSE,
     chat_history |-> <<>>, sources |-> <<>>, ret |-> "",
     documents |-> <<>>, source_documents |-> <<>>, text |-> <<>>,
     processed |-> <<>>]

\* the fields of self that initialize_qa_chain reads and assigns, with the
\* persisted collection and the clock
Self ==
    [vectorstore |-> vectorstore, qa_chain |-> qa_chain,
     message_history |-> message_history, chroma |-> chroma, now |-> now,
     raised |-> FALSE]

\* load_documents raises: open or read of a file raised inside the loop, and the
\* except clause around the whole loop logs and re-raises
load_documents_raises(dir) == \E i \in 1..Len(dir) : ~dir[i].readable

\* load_documents: one Document per *.txt file, stamped with the load time
load_documents(dir, t) ==
    [i \in 1..Len(dir) |->
        [source |-> dir[i].source, n |-> dir[i].n, created_at |-> t]]

\* text_splitter.split_documents([doc]): doc.n chunks carrying doc's metadata
split_documents(doc) ==
    [j \in 1..doc.n |->
        [source |-> doc.source, chunk_id |-> 0, created_at |-> doc.created_at]]

\* the two loops of initialize_qa_chain: the first loop only rebinds doc_chunks,
\* so after it doc and doc_chunks are those of the LAST document; the second
\* loop, which runs after the first has ended, renumbers and collects them
collect_chunks(documents) ==
    LET doc == documents[Len(documents)]
        doc_chunks == split_documents(doc)
    IN [j \in 1..Len(doc_chunks) |->
            [source |-> doc.source, chunk_id |-> j - 1,
             created_at |-> doc.created_at]]

\* Chroma.from_documents(persist_directory=CHROMA_DIR): the chunks are added to
\* the collection that lives in that directory
from_documents(collection, chunks) == collection \o chunks

\* initialize_qa_chain on s, failing at stage `fail` ("none": no failure); a
\* failed index write leaves the first `written` chunks behind
initialize_qa_chain(s, dir, fail, written) ==
    LET documents == load_documents(dir, s.now)
        failed == [s EXCEPT !.raised = TRUE]
    IN IF fail = "load" \/ load_documents_raises(dir) THEN failed
       ELSE IF documents = <<>> THEN failed      \* doc_chunks is unbound: NameError
       ELSE LET chunks == collect_chunks(documents) IN
            IF fail = "embed" THEN failed
            ELSE IF fail = "write"
                 THEN LET w == Min(written, Len(chunks)) IN
                      [failed EXCEPT
                          !.chroma = from_documents(@, SubSeq(chunks, 1, w)),
                          !.now = IF w > 0 THEN @ + 1 ELSE @]
            ELSE LET s1 == [failed EXCEPT
                              !.chroma = from_documents(@, chunks),
                              !.vectorstore = s.now,
                              !.now = @ + 1]
                     s2 == [s1 EXCEPT !.message_history = InMemoryHistory]
                 IN IF fail = "llm" THEN s1
                    ELSE IF fail = "chain" THEN s2
                    ELSE [s2 EXCEPT !.qa_chain = s.now, !.raised = FALSE]

\* the pairing shifted by one message: (answer, next question)
ChatHistoryPairs_Shifted(messages) ==
    LET n == (Len(messages) - 1) \div 2
    IN [p \in 1..n |->
            <<messages[2 * p].content, messages[2 * p + 1].content>>]

\* the (question, answer) pairs process_query builds from the messages
ChatHistoryPairs(messages) ==
    LET idx == {i \in 0..(Len(messages) - 2) : i % 2 = 0 /\ i + 1 < Len(messages)}
        n == Cardinality(idx)
    IN [p \in 1..n |->
            <<messages[2 * (p - 1) + 1].content, messages[2 * (p - 1) + 2].content>>]

\* what the retriever can hand back: up to k_documents distinct entries of the
\* collection, in an order the similarity scores decide
Retrievals(collection) ==
    LET m == Min(k_documents, Len(collection))
        picks == {f \in [1..m -> 1..Len(collection)] :
                     \A i, j \in 1..m : i # j => f[i] # f[j]}
    IN {[i \in 1..m |-> collection[f[i]]] : f \in picks}

\* every record is appended, seen before or not
DedupeFrom_KeepAll(docs, sources) == sources \o docs

RECURSIVE DedupeFrom(_, _)
DedupeFrom(docs, sources) ==
    IF docs = <<>> THEN sources
    ELSE LET source_info == Head(docs) IN
         DedupeFrom(Tail(docs),
                    IF \E i \in 1..Len(sources) : sources[i] = source_info
                    THEN sources ELSE Append(sources, source_info))

\* the sources loop of process_query
Sources(source_documents) == DedupeFrom(source_documents, <<>>)

SetSelf(s) ==
    /\ chroma' = s.chroma
    /\ vectorstore' = s.vectorstore
    /\ qa_chain' = s.qa_chain
    /\ message_history' = s.message_history
    /\ now' = s.now

Idle == export_pc.state = "idle"

AbsentFile == [state |-> "absent", timestamp |-> 0, conversations |-> <<>>]
IdlePc == [state |-> "idle", filepath |-> "", timestamp |-> 0, conversations |-> <<>>]
ExportNames == {"out.json", "chat_history_ts.json"}

\* ------------------------------------------------------------------- Init
Init ==
    /\ extracted = <<>>
    /\ chroma = <<>>
    /\ vectorstore = None
    /\ qa_chain = None
    /\ message_history = NoHistory
    /\ now = 1
    /\ feedback_file = [state |-> "absent", records |-> <<>>]
    /\ exports = [f \in ExportNames |-> AbsentFile]
    /\ export_pc = IdlePc
    /\ reader_saw = AbsentFile
    /\ last = Call("init")

\* ---------------------------------------------------------------- actions
\* streamlit_app.process_uploaded_file: the extracted text of an uploaded PDF is
\* written to EXTRACTED_DIR/<name>.txt, replacing a file of that name
process_uploaded_file(name, n) ==
    /\ Idle
    /\ LET at == {i \in 1..Len(extracted) : extracted[i].source = name} IN
       IF at = {}
       THEN /\ Len(extracted) < MaxDocs
            /\ extracted' = Append(extracted,
                                   [source |-> name, n |-> n, readable |-> TRUE])
       ELSE extracted' = [i \in 1..Len(extracted) |->
                            IF i \in at
                            THEN [source |-> name, n |-> n, readable |-> TRUE]
                            ELSE extracted[i]]
    /\ last' = Call("upload")
    /\ UNCHANGED <<chroma, vectorstore, qa_chain, message_history, now,
                   feedback_vars, export_vars>>

\* a *.txt file of EXTRACTED_DIR becomes one that open(..., encoding="utf-8") or
\* read() raises on (no permission, bytes that are not UTF-8)
file_becomes_unreadable(name) ==
    /\ Idle
    /\ \E i \in 1..Len(extracted) :
          /\ extracted[i].source = name
          /\ extracted[i].readable
          /\ extracted' = [extracted EXCEPT ![i].readable = FALSE]
    /\ last' = Call("unreadable")
    /\ UNCHANGED <<chroma, vectorstore, qa_chain, message_history, now,
                   feedback_vars, export_vars>>

\* a direct call of load_documents
load_documents_call ==
    /\ Idle
    /\ last' = IF load_documents_raises(extracted)
               THEN [Call("load_documents") EXCEPT !.outcome = "raise"]
               ELSE [Call("load_documents") EXCEPT
                        !.documents = load_documents(extracted, now)]
    /\ UNCHANGED <<qa_vars, feedback_vars, export_vars>>

\* self after the lazy build at the top of process_query
AfterLazyBuild(fail, written) ==
    IF qa_chain = None THEN initialize_qa_chain(Self, extracted, fail, written)
    ELSE Self

\* process_query whose lazy initialize_qa_chain raises
process_query_build_fails(query, fail, written) ==
    /\ Idle
    /\ qa_chain = None
    /\ now <= MaxBuilds
    /\ LET s == AfterLazyBuild(fail, written) IN
       /\ s.raised
       /\ SetSelf(s)
       /\ last' = [Call("process_query") EXCEPT
                      !.query = query, !.outcome = "raise", !.built = TRUE]
    /\ UNCHANGED <<extracted, feedback_vars, export_vars>>

\* process_query whose qa_chain.invoke raises
process_query_invoke_fails(query) ==
    /\ Idle
    /\ qa_chain = None => now <= MaxBuilds
    /\ LET s == AfterLazyBuild("none", 0) IN
       /\ ~s.raised
       /\ Len(s.message_history.messages) + 1 <= MaxMsgs
       /\ LET h == add_message(s.message_history, HumanMessage(query)) IN
          /\ SetSelf([s EXCEPT !.message_history = h])
          /\ last' = [Call("process_query") EXCEPT
                         !.query = query, !.outcome = "raise",
                         !.built = (qa_chain = None), !.invoked = TRUE,
                         !.chat_history = ChatHistoryPairs(h.messages)]
    /\ UNCHANGED <<extracted, feedback_vars, export_vars>>

\* process_query that returns, the chain having answered with `answer` and
\* result["source_documents"] = source_documents
process_query_returns(query, answer, source_documents) ==
    /\ Idle
    /\ qa_chain = None => now <= MaxBuilds
    /\ LET s == AfterLazyBuild("none", 0) IN
       /\ ~s.raised
       /\ Len(s.message_history.messages) + 2 <= MaxMsgs
       /\ LET h1 == add_message(s.message_history, HumanMessage(query))
              h2 == add_message(h1, AIMessage(answer))
          IN /\ SetSelf([s EXCEPT !.message_history = h2])
             /\ last' = [Call("process_query") EXCEPT
                            !.query = query, !.answer = answer,
                            !.built = (qa_chain = None), !.invoked = TRUE,
                            !.chat_history = ChatHistoryPairs(h1.messages),
                            !.source_documents = source_documents,
                            !.sources = Sources(source_documents)]
    /\ UNCHANGED <<extracted, feedback_vars, export_vars>>

\* process_query that returns, over the chain's own retriever
process_query_ok(query, answer) ==
    \E source_documents \in Retrievals(AfterLazyBuild("none", 0).chroma) :
        process_query_returns(query, answer, source_documents)

\* self after the first lines of reindex_documents, before the rebuild
BeforeRebuild ==
    [Self EXCEPT
        !.vectorstore = None,
        !.message_history = IF @.exists THEN clear(@) ELSE @]

\* reindex_documents, failing at stage `fail` or succeeding ("none")
reindex_documents(fail, written) ==
    /\ Idle
    /\ now <= MaxBuilds
    /\ LET s == initialize_qa_chain(BeforeRebuild, extracted, fail, written) IN
       /\ SetSelf(s)
       /\ last' = [Call("reindex_documents") EXCEPT
                      !.outcome = IF s.raised THEN "raise" ELSE "ok",
                      !.built = TRUE]
    /\ UNCHANGED <<extracted, feedback_vars, export_vars>>

clear_chat_history ==
    /\ Idle
    /\ message_history' = IF message_history.exists THEN clear(message_history)
                          ELSE message_history
    /\ last' = Call("clear_chat_history")
    /\ UNCHANGED <<extracted, chroma, vectorstore, qa_chain, now,
                   feedback_vars, export_vars>>

\* the record process_feedback builds from its arguments
feedback_data(question, answer, rating, comment, t) ==
    [timestamp |-> t, question |-> question, answer |-> answer,
     rating |-> rating, comment |-> comment]

\* the stored list is never read: every call starts from []
load_feedbacks_NotRead(file) == <<>>

\* the feedbacks list process_feedback starts from: [] unless the file exists,
\* else what json.load returns
load_feedbacks(file) == IF file.state = "absent" THEN <<>> ELSE file.records

\* process_feedback that returns: read the whole list, append, write the whole list
process_feedback_ok(question, answer, rating, comment) ==
    /\ Idle
    /\ feedback_file.state # "truncated"
    /\ LET feedbacks == Append(load_feedbacks(feedback_file),
                               feedback_data(question, answer, rating, comment, now))
       IN /\ Len(feedbacks) <= MaxFeedbacks
          /\ feedback_file' = [state |-> "list", records |-> feedbacks]
    /\ last' = [Call("process_feedback") EXCEPT
                   !.query = question, !.answer = answer, !.rating = rating,
                   !.comment = comment]
    /\ UNCHANGED <<qa_vars, export_vars>>

\* process_feedback whose json.load raises: the file is left as it is
process_feedback_read_fails(question, answer, rating, comment) ==
    /\ Idle
    /\ feedback_file.state # "absent"
    /\ last' = [Call("process_feedback") EXCEPT
                   !.query = question, !.answer = answer, !.rating = rating,
                   !.comment = comment, !.outcome = "raise"]
    /\ UNCHANGED <<qa_vars, feedback_vars, export_vars>>

\* process_feedback whose write raises: open(feedback_file, "w") has already
\* truncated the file
process_feedback_write_fails(question, answer, rating, comment) ==
    /\ Idle
    /\ feedback_file.state # "truncated"
    /\ feedback_file' = [state |-> "truncated", records |-> <<>>]
    /\ last' = [Call("process_feedback") EXCEPT
                   !.query = question, !.answer = answer, !.rating = rating,
                   !.comment = comment, !.outcome = "raise"]
    /\ UNCHANGED <<qa_vars, export_vars>>

\* ----------------------------------------------------- export_chat_history

\* the destination: EXPORTS_DIR/custom_filename, or a name made from the clock
export_filepath(custom_filename) ==
    IF custom_filename # "" THEN custom_filename ELSE "chat_history_ts.json"

\* the "conversations" list of export_data
export_conversations(messages) ==
    [i \in 1..Len(messages) |->
        [role |-> IF messages[i].role = "human" THEN "human" ELSE "ai",
         content |-> messages[i].content]]

\* export_chat_history with no message history object: returns "" and writes nothing
export_chat_history_none(custom_filename) ==
    /\ Idle
    /\ ~message_history.exists
    /\ last' = [Call("export_chat_history") EXCEPT !.ret = ""]
    /\ UNCHANGED <<qa_vars, feedback_vars, export_vars>>

\* export_chat_history up to open(filepath, "w"): the destination is truncated
export_chat_history_open(custom_filename) ==
    /\ Idle
    /\ message_history.exists
    /\ LET filepath == export_filepath(custom_filename) IN
       /\ exports' = [exports EXCEPT ![filepath] =
                        [state |-> "empty", timestamp |-> 0, conversations |-> <<>>]]
       /\ export_pc' = [state |-> "writing", filepath |-> filepath, timestamp |-> now,
                        conversations |-> export_conversations(message_history.messages)]
    /\ UNCHANGED <<qa_vars, feedback_vars, reader_saw, last>>

\* json.dump flushes a first part of the text to the destination
export_chat_history_flush ==
    /\ export_pc.state = "writing"
    /\ exports[export_pc.filepath].state = "empty"
    /\ exports' = [exports EXCEPT ![export_pc.filepath] =
                     [state |-> "partial", timestamp |-> 0, conversations |-> <<>>]]
    /\ UNCHANGED <<qa_vars, feedback_vars, export_pc, reader_saw, last>>

\* the with block ends: the whole text is in the file, the path is returned
export_chat_history_close ==
    /\ export_pc.state = "writing"
    /\ exports' = [exports EXCEPT ![export_pc.filepath] =
                     [state |-> "complete", timestamp |-> export_pc.timestamp,
                      conversations |-> export_pc.conversations]]
    /\ export_pc' = IdlePc
    /\ last' = [Call("export_chat_history") EXCEPT !.ret = export_pc.filepath]
    /\ UNCHANGED <<qa_vars, feedback_vars, reader_saw>>

\* the write raises: what was written so far stays in the destination
export_chat_history_write_fails ==
    /\ export_pc.state = "writing"
    /\ export_pc' = IdlePc
    /\ last' = [Call("export_chat_history") EXCEPT !.outcome = "raise"]
    /\ UNCHANGED <<qa_vars, feedback_vars, exports, reader_saw>>

\* another process reads an export file
read_export(filepath) ==
    /\ reader_saw' = exports[filepath]
    /\ UNCHANGED <<qa_vars, feedback_vars, exports, export_pc, last>>

\* -------------------------------------------------------- preprocess_text
\* a text is a sequence of characters
Whitespace == {" ", "\n", "\t"}                      \* \s
WordChars == {"a", "b", "0", "_"}                     \* \w
SentencePunct == {".", ",", "!", "?", ";", ":"}
QuoteChars == {"\"", "'"}
Brackets == {"(", ")", "[", "]", "{", "}", "-"}
Allowed == WordChars \cup Whitespace \cup SentencePunct \cup QuoteChars \cup Brackets

\* the text without its leading characters of class
RECURSIVE DropWhile(_, _)
DropWhile(text, class) ==
    IF text # <<>> /\ Head(text) \in class THEN DropWhile(Tail(text), class)
    ELSE text

\* re.sub(r"\s+", " ", text)
RECURSIVE CollapseWhitespace(_)
CollapseWhitespace(text) ==
    IF text = <<>> THEN <<>>
    ELSE IF Head(text) \in Whitespace
         THEN <<" ">> \o CollapseWhitespace(DropWhile(text, Whitespace))
         ELSE <<Head(text)>> \o CollapseWhitespace(Tail(text))

\* the length of the match of \n\s*\n at the head of text, 0 when there is none:
\* \s* is greedy, so the match ends at the last newline of the whitespace run
BlankLinesMatch(text) ==
    IF text = <<>> \/ Head(text) # "\n" THEN 0
    ELSE LET run == Len(text) - Len(DropWhile(text, Whitespace))
             ends == {k \in 2..run : text[k] = "\n"}
         IN IF ends = {} THEN 0
            ELSE CHOOSE k \in ends : \A e \in ends : e <= k

\* re.sub(r"\n\s*\n", "\n\n", text)
RECURSIVE CollapseBlankLines(_)
CollapseBlankLines(text) ==
    IF text = <<>> THEN <<>>
    ELSE LET k == BlankLinesMatch(text) IN
         IF k > 0
         THEN <<"\n", "\n">> \o CollapseBlankLines(SubSeq(text, k + 1, Len(text)))
         ELSE <<Head(text)>> \o CollapseBlankLines(Tail(text))

\* re.sub(r"[^\w\s.,!?;:()\[\]{}\-\'\"]+", " ", text)
RECURSIVE ReplaceDisallowed(_)
ReplaceDisallowed(text) ==
    IF text = <<>> THEN <<>>
    ELSE IF Head(text) \notin Allowed
         THEN <<" ">> \o ReplaceDisallowed(
                            DropWhile(text, {c \in Alphabet : c \notin Allowed}))
         ELSE <<Head(text)>> \o ReplaceDisallowed(Tail(text))

\* text.replace('"', '"').replace('"', '"'): both replace a straight double
\* quote by a straight double quote
ReplaceQuotes(text) ==
    [i \in 1..Len(text) |-> IF text[i] = "\"" THEN "\"" ELSE text[i]]

\* re.sub(r"([.,!?;:](?:\"|\')?)", r"\1 ", text)
RECURSIVE SpaceAfterPunct(_)
SpaceAfterPunct(text) ==
    IF text = <<>> THEN <<>>
    ELSE IF Head(text) \in SentencePunct
         THEN IF Len(text) >= 2 /\ text[2] \in QuoteChars
              THEN <<text[1], text[2], " ">>
                       \o SpaceAfterPunct(SubSeq(text, 3, Len(text)))
              ELSE <<text[1], " ">> \o SpaceAfterPunct(Tail(text))
         ELSE <<Head(text)>> \o SpaceAfterPunct(Tail(text))

\* the text without its trailing whitespace
RECURSIVE RStrip(_)
RStrip(text) ==
    IF text # <<>> /\ text[Len(text)] \in Whitespace
    THEN RStrip(SubSeq(text, 1, Len(text) - 1))
    ELSE text

\* text.strip()
Strip(text) == RStrip(DropWhile(text, Whitespace))

preprocess_text(text) ==
    Strip(SpaceAfterPunct(ReplaceQuotes(ReplaceDisallowed(
        CollapseBlankLines(CollapseWhitespace(text))))))

\* a call of preprocess_text
preprocess_text_call(text) ==
    /\ Idle
    /\ last' = [Call("preprocess_text") EXCEPT
                   !.text = text, !.processed = preprocess_text(text)]
    /\ UNCHANGED <<qa_vars, feedback_vars, export_vars>>

\* --------------------------------------------------------- specifications
\* an uploaded PDF with text, or one whose text splits into no chunk at all
Upload ==
    \/ \E name \in DocNames, n \in 1..MaxChunks : process_uploaded_file(name, n)
    \/ \E name \in DocNames : process_uploaded_file(name, 0)

IndexOps ==
    \/ Upload
    \/ \E fail \in Stages, written \in 0..MaxChunks :
          process_query_build_fails("q1", fail, written)
    \/ \E fail \in Stages \cup {"none"}, written \in 0..MaxChunks :
          reindex_documents(fail, written)

\* the index and what queries retrieve from it
NextQA ==
    \/ IndexOps
    \/ process_query_invoke_fails("q1")
    \/ process_query_ok("q1", "a1")
    \/ clear_chat_history

SpecQA == Init /\ [][NextQA]_vars

\* the runs in which no build and no query fails
NextRebuild ==
    \/ Upload
    \/ process_query_ok("q1", "a1")
    \/ reindex_documents("none", 0)
    \/ clear_chat_history

SpecRebuild == Init /\ [][NextRebuild]_vars

\* loading a directory in which files can be unreadable
NextLoad ==
    \/ Upload
    \/ \E name \in DocNames : file_becomes_unreadable(name)
    \/ load_documents_call
    \/ \E fail \in {"load", "none"} : reindex_documents(fail, 0)

SpecLoad == Init /\ [][NextLoad]_vars

Texts == UNION {[1..m -> Alphabet] : m \in 0..MaxLen}

NextNormalize == \E text \in Texts : preprocess_text_call(text)

SpecNormalize == Init /\ [][NextNormalize]_vars

\* what a chain can put in result["source_documents"]: any list of entries of
\* the collection, repeats included
ChainResults(collection) ==
    LET entries == {collection[i] : i \in 1..Len(collection)}
    IN UNION {[1..m -> entries] : m \in 0..MaxRetrieved}

\* queries whose chain result is any list of indexed entries
NextSources ==
    \/ \E name \in DocNames : process_uploaded_file(name, 1)
    \/ \E source_documents \in ChainResults(AfterLazyBuild("none", 0).chroma) :
          process_query_returns("q1", "a1", source_documents)
    \/ reindex_documents("none", 0)
    \/ clear_chat_history

SpecSources == Init /\ [][NextSources]_vars

\* the session over a directory holding one document
NextSession ==
    \/ process_uploaded_file("A.txt", 1)
    \/ \E query \in Questions : process_query_build_fails(query, "load", 0)
    \/ \E query \in Questions : process_query_invoke_fails(query)
    \/ \E query \in Questions, answer \in Answers : process_query_ok(query, answer)
    \/ \E fail \in {"load", "none"} : reindex_documents(fail, 0)
    \/ clear_chat_history

SpecSession == Init /\ [][NextSession]_vars

NextFeedback ==
    \/ \E question \in FeedbackQuestions, rating \in Ratings :
          process_feedback_ok(question, "a1", rating, "")
    \/ \E question \in FeedbackQuestions, rating \in Ratings :
          process_feedback_read_fails(question, "a1", rating, "")
    \/ \E question \in FeedbackQuestions, rating \in Ratings :
          process_feedback_write_fails(question, "a1", rating, "")

SpecFeedback == Init /\ [][NextFeedback]_vars

NextExport ==
    \/ process_uploaded_file("A.txt", 1)
    \/ process_query_invoke_fails("q1")
    \/ process_query_ok("q1", "a1")
    \/ clear_chat_history
    \/ \E custom_filename \in CustomFilenames : export_chat_history_none(custom_filename)
    \/ \E custom_filename \in CustomFilenames : export_chat_history_open(custom_filename)
    \/ export_chat_history_flush
    \/ export_chat_history_close
    \/ export_chat_history_write_fails
    \/ \E filepath \in DOMAIN exports : read_export(filepath)

SpecExport == Init /\ [][NextExport]_vars

Next == NextQA \/ NextRebuild \/ NextLoad \/ NextNormalize \/ NextSources \/ NextSession \/ NextFeedback \/ NextExport

Spec == Init /\ [][Next]_vars

\* ------------------------------------------------------------------ claims
\* human, ai, human, ai, ... from the first message on
Alternates(messages) ==
    \A i \in 1..Len(messages) :
        messages[i].role = IF i % 2 = 1 THEN "human" ELSE "ai"

RECURSIVE TotalChunks(_)
TotalChunks(dir) == IF dir = <<>> THEN 0 ELSE Head(dir).n + TotalChunks(Tail(dir))

\* C1: in every reachable state the session's messages strictly alternate
\* human, assistant, human, assistant, ... starting with a human message.
C1_MessagesAlternate == Alternates(message_history.messages)

\* C2: a process_query call with an empty question ends in an invalid-argument
\* error, leaves the message history as it was, triggers no index build and
\* invokes neither the retriever nor the generation provider.
C2_EmptyQuestionRejected ==
    [][(last'.op = "process_query" /\ last'.query = "")
        => /\ last'.outcome = "invalid_argument"
           /\ message_history' = message_history
           /\ ~last'.built
           /\ ~last'.invoked]_vars

\* C3: when every process_query call since the history was created or cleared
\* has succeeded, the n-th such call leaves 2n messages ending in its question
\* and its answer, and the chat_history it handed to the chain is exactly the
\* n-1 earlier (question, answer) pairs in order.
C3_EarlierPairsHandedOn ==
    (last.op = "process_query" /\ last.outcome = "ok"
        /\ Alternates(message_history.messages))
    => LET messages == message_history.messages
           n == Len(messages) \div 2
       IN /\ Len(messages) = 2 * n
          /\ n >= 1
          /\ messages[2 * n - 1] = HumanMessage(last.query)
          /\ messages[2 * n] = AIMessage(last.answer)
          /\ Len(last.chat_history) = n - 1
          /\ \A p \in 1..(n - 1) :
                last.chat_history[p] =
                    <<messages[2 * p - 1].content, messages[2 * p].content>>

\* two successful calls with different questions: q1, a1, q2, a2
C3_Witness ==
    /\ last.op = "process_query" /\ last.outcome = "ok"
    /\ Len(message_history.messages) = 4
    /\ Alternates(message_history.messages)
    /\ message_history.messages[1].content = "q1"
    /\ message_history.messages[2].content = "a1"
    /\ message_history.messages[3].content = "q2"
    /\ message_history.messages[4].content = "a2"
    /\ last.chat_history = << <<"q1", "a1">> >>

\* C4: after a successful reindex_documents the persisted collection holds
\* only the entries of that build, and a successful query returns only entries
\* of the build that made the chain it ran on.
C4_OnlyLatestBuild ==
    /\ (last.op = "reindex_documents" /\ last.outcome = "ok")
        => \A i \in 1..Len(chroma) : chroma[i].created_at = qa_chain
    /\ (last.op = "process_query" /\ last.outcome = "ok")
        => \A i \in 1..Len(last.sources) : last.sources[i].created_at = qa_chain

\* C5: a reindex_documents call that raises on a system that had a vector
\* store and a QA chain leaves the vector store handle, the QA chain and the
\* persisted entries as they were before the call.
C5_FailedReindexPreserves ==
    [][(last'.op = "reindex_documents" /\ last'.outcome = "raise"
            /\ vectorstore # None /\ qa_chain # None)
        => /\ vectorstore' = vectorstore
           /\ qa_chain' = qa_chain
           /\ chroma' = chroma]_vars

\* C6: after a successful initialize_qa_chain the entries of that build are as
\* many as the chunks of all loaded documents together, and every document
\* with at least one chunk has an entry among them.
C6_AllChunksIndexed ==
    (last.built /\ last.outcome = "ok")
    => LET mine == {i \in 1..Len(chroma) : chroma[i].created_at = qa_chain} IN
       /\ Cardinality(mine) = TotalChunks(extracted)
       /\ \A d \in 1..Len(extracted) :
             extracted[d].n >= 1
             => \E i \in mine : chroma[i].source = extracted[d].source

\* C7: a process_feedback call with a rating outside 1..5 ends in an
\* invalid-argument error and leaves the feedback file as it was.
C7_RatingValidated ==
    [][(last'.op = "process_feedback" /\ last'.rating \notin 1..5)
        => /\ last'.outcome = "invalid_argument"
           /\ feedback_file' = feedback_file]_vars

\* C8: a process_feedback call that returns leaves the stored list equal to
\* the list stored before the call followed by one record holding the call's
\* question, answer, rating and comment.
C8_AppendsOneRecord ==
    [][(last'.op = "process_feedback" /\ last'.outcome = "ok")
        => LET before == IF feedback_file.state = "list"
                         THEN feedback_file.records ELSE <<>>
               after == feedback_file'.records
           IN /\ feedback_file'.state = "list"
              /\ Len(after) = Len(before) + 1
              /\ SubSeq(after, 1, Len(before)) = before
              /\ after[Len(after)].question = last'.query
              /\ after[Len(after)].answer = last'.answer
              /\ after[Len(after)].rating = last'.rating
              /\ after[Len(after)].comment = last'.comment]_vars

\* a successful call on a file that already held two different records
C8_Witness ==
    /\ last.op = "process_feedback" /\ last.outcome = "ok"
    /\ feedback_file.state = "list"
    /\ Len(feedback_file.records) = 3
    /\ feedback_file.records[1] # feedback_file.records[2]
    /\ feedback_file.records[3].question = last.query
    /\ feedback_file.records[3].rating = last.rating

\* C9: an export_chat_history call that returns on a session with no messages
\* returns the path of a file holding an empty conversations list and a
\* timestamp.
C9_EmptySessionExported ==
    (last.op = "export_chat_history" /\ last.outcome = "ok" /\ Idle
        /\ message_history.messages = <<>>)
    => /\ last.ret # ""
       /\ exports[last.ret].state = "complete"
       /\ exports[last.ret].conversations = <<>>
       /\ exports[last.ret].timestamp > 0

\* C10: a reader of an export file sees no file or a complete export, never an
\* empty or partly written one.
C10_ReaderSeesWholeFile == reader_saw.state \in {"absent", "complete"}

\* the files of dir that can be read
Readable(dir) == {i \in 1..Len(dir) : dir[i].readable}

\* C11: a load_documents call on a directory with exactly one unreadable file
\* beside readable ones does not raise and returns one document for each of
\* the readable files.
C11_UnreadableFileSkipped ==
    (last.op = "load_documents"
        /\ Cardinality(Readable(extracted)) = Len(extracted) - 1
        /\ Cardinality(Readable(extracted)) >= 1)
    => /\ last.outcome = "ok"
       /\ Len(last.documents) = Cardinality(Readable(extracted))
       /\ \A i \in Readable(extracted) :
             \E d \in 1..Len(last.documents) :
                last.documents[d].source = extracted[i].source

\* the place of the first occurrence of x in docs
FirstSeen(docs, x) ==
    CHOOSE i \in 1..Len(docs) : docs[i] = x /\ \A j \in 1..(i - 1) : docs[j] # x

\* C12: the sources a returning process_query hands back hold no record twice,
\* hold every record of the chain's source documents, and list them in the
\* order of their first occurrence there.
C12_SourcesDedupedFirstSeen ==
    (last.op = "process_query" /\ last.outcome = "ok")
    => LET src == last.sources
           docs == last.source_documents
       IN /\ \A i, j \in 1..Len(src) : i # j => src[i] # src[j]
          /\ {src[i] : i \in 1..Len(src)} = {docs[i] : i \in 1..Len(docs)}
          /\ \A i, j \in 1..Len(src) :
                i < j => FirstSeen(docs, src[i]) < FirstSeen(docs, src[j])

\* a chain result x, y, x with x # y, returned as x, y
C12_Witness ==
    /\ last.op = "process_query" /\ last.outcome = "ok"
    /\ Len(last.source_documents) = 3
    /\ last.source_documents[1] = last.source_documents[3]
    /\ last.source_documents[1] # last.source_documents[2]
    /\ last.sources = <<last.source_documents[1], last.source_documents[2]>>

\* C13: preprocess_text applied to its own result gives that result again.
C13_PreprocessIdempotent ==
    last.op = "preprocess_text"
    => preprocess_text(last.processed) = last.processed

\* the (question, answer) pairs of the completed calls: each human message
\* with the assistant message that follows it, unanswered questions skipped
RECURSIVE AnsweredPairs(_)
AnsweredPairs(messages) ==
    IF Len(messages) < 2 THEN <<>>
    ELSE IF messages[1].role = "human" /\ messages[2].role = "ai"
         THEN << <<messages[1].content, messages[2].content>> >>
                  \o AnsweredPairs(SubSeq(messages, 3, Len(messages)))
         ELSE AnsweredPairs(Tail(messages))

\* C14: the chat_history a process_query call hands to the chain is the list
\* of (question, answer given to it) pairs of the earlier completed calls, in
\* order, with unanswered questions skipped.
C14_PairsAreAnsweredQuestions ==
    (last.op = "process_query" /\ last.invoked)
    => LET messages == message_history.messages
           own == IF last.outcome = "ok" THEN 2 ELSE 1
       IN last.chat_history =
              AnsweredPairs(SubSeq(messages, 1, Len(messages) - own))

====
